---- MODULE Spec2Model ----
(***************************************************************************)
(* The Interpreter pattern of src/Behavioral_patterns/interpreter_dp.py:   *)
(* calc(input_) runs lex(input_), parse(tokens) and reads parsed.value.    *)
(*                                                                         *)
(* Strings are sequences of one-character strings.  Indices are the        *)
(* code's 0-based indices: At(s, k) is s[k], Slice(s, a, b) is s[a:b].     *)
(***************************************************************************)
EXTENDS Integers, Sequences, FiniteSets, TLC

VARIABLES
    input_,   \* calc's argument, the expression string
    pc,       \* where calc is: "lex", "parse", "eval" (reading .value), "done"
    i,        \* lex: the index i
    result,   \* lex: the list result; after lex returned, calc's tokens
    stack,    \* parse: the active calls, innermost last; each holds the
              \* call's tokens, i, j, has_left_side and result
    parsed,   \* calc: the node parse returned, None before
    outcome,  \* calc: what reading parsed.value gave, a value or an exception
    texts,    \* a caller of lex: the strings it tokenizes
    lexed,    \* a caller of lex: the token lists lex has returned to it
    fn,       \* src/Interview_Problems: the function that runs, "" when none
    args,     \* its arguments, by name
    locals,   \* its local variables, by name
    ret,      \* the values returned so far, by function name
    nodes,    \* linked_lists.py: the Node objects, by identity (val, next);
              \* command_dp.py: the BankAccountCommand objects, by identity
    ba        \* memento_dp.py, command_dp.py: the bank account object ba

vars ==
    <<input_, pc, i, result, stack, parsed, outcome, texts, lexed,
      fn, args, locals, ret, nodes, ba>>

\* The state of the functions of src/Interview_Problems.
interview == <<fn, args, locals, ret, nodes>>

\* What the steps of lex, parse and calc never touch.
others == <<texts, lexed, interview, ba>>

\* The state of the interpreter, which the interview functions never touch.
interpreter == <<input_, pc, i, result, stack, parsed, outcome, texts, lexed>>

\* No interview function is running.
InterviewIdle ==
    /\ fn = ""
    /\ args = <<>>
    /\ locals = <<>>
    /\ ret = <<>>
    /\ nodes = <<>>

(***************************************************************************)
(* Bounds of the checked inputs.                                           *)
(***************************************************************************)
MaxLen == 4
MaxOperand == 3
BigOperand == 12

(***************************************************************************)
(* Python sequence access.                                                 *)
(***************************************************************************)
At(s, k) == s[k + 1]

Slice(s, a, b) == SubSeq(s, a + 1, b)

(***************************************************************************)
(* Characters.  Alphabet is the set the arbitrary input strings are drawn  *)
(* from: a digit, the four operator characters, a letter and a blank.      *)
(***************************************************************************)
Digits == {"0", "1", "2", "3", "4", "5", "6", "7", "8", "9"}

OperatorChars == {"+", "-", "(", ")"}

Alphabet == {"1", "+", "-", "(", ")", "a", " "}

IsDigit(c) == c \in Digits

IsSpace(c) == c = " "

DigitChar == <<"0", "1", "2", "3", "4", "5", "6", "7", "8", "9">>

DigitVal(c) == CHOOSE d \in 0..9 : DigitChar[d + 1] = c

(***************************************************************************)
(* Token and its Type.                                                     *)
(***************************************************************************)
TokenTypes == {"INTEGER", "PLUS", "MINUS", "LPAREN", "RPAREN"}

Token(type_, text) == [type_ |-> type_, text |-> text]

(***************************************************************************)
(* The expression nodes.  None is Python's None.                           *)
(***************************************************************************)
None == [kind |-> "None"]

Integer(value) == [kind |-> "Integer", value |-> value]

BinaryExpression(type_, left, right) ==
    [kind |-> "BinaryExpression", type_ |-> type_, left |-> left, right |-> right]

NewBinaryExpression == BinaryExpression("None", None, None)

(***************************************************************************)
(* int(text) of Python: blanks around the literal are stripped, what is    *)
(* left must be a non-empty run of decimal digits (the token texts hold no *)
(* sign: + and - are tokens of their own).                                 *)
(***************************************************************************)
RECURSIVE LStrip(_)
LStrip(s) == IF s # <<>> /\ IsSpace(Head(s)) THEN LStrip(Tail(s)) ELSE s

RECURSIVE RStrip(_)
RStrip(s) ==
    IF s # <<>> /\ IsSpace(s[Len(s)]) THEN RStrip(SubSeq(s, 1, Len(s) - 1)) ELSE s

Strip(s) == RStrip(LStrip(s))

IntOK(text) ==
    LET t == Strip(text)
    IN  t # <<>> /\ \A k \in 1..Len(t) : IsDigit(t[k])

RECURSIVE DecimalValue(_)
DecimalValue(t) ==
    IF t = <<>> THEN 0
    ELSE 10 * DecimalValue(SubSeq(t, 1, Len(t) - 1)) + DigitVal(t[Len(t)])

IntOf(text) == DecimalValue(Strip(text))

(***************************************************************************)
(* The decimal text of a non-negative integer, as it is written in an      *)
(* expression string.                                                      *)
(***************************************************************************)
RECURSIVE Decimal(_)
Decimal(n) ==
    IF n < 10 THEN <<DigitChar[n + 1]>>
    ELSE Decimal(n \div 10) \o <<DigitChar[(n % 10) + 1]>>

(***************************************************************************)
(* The input strings.                                                      *)
(***************************************************************************)
Ops == {"+", "-"}

Operands == (0..MaxOperand) \cup {BigOperand}

Strings(n) == UNION {[1..k -> Alphabet] : k \in 0..n}

Flat2(a, op, b) == Decimal(a) \o <<op>> \o Decimal(b)

Flat3(a, op1, b, op2, c) == Flat2(a, op1, b) \o <<op2>> \o Decimal(c)

Group3(a, op1, b, op2, c) == <<"(">> \o Flat3(a, op1, b, op2, c) \o <<")">>

Paren4(a, op1, b, op2, c, op3, d) ==
    <<"(">> \o Flat2(a, op1, b) \o <<")", op2, "(">> \o Flat2(c, op3, d) \o <<")">>

Flat2Inputs == {Flat2(a, op, b) : a \in Operands, op \in Ops, b \in Operands}

Flat3Inputs ==
    {Flat3(a, op1, b, op2, c) :
        a \in Operands, op1 \in Ops, b \in Operands, op2 \in Ops, c \in Operands}

Group3Inputs ==
    {Group3(a, op1, b, op2, c) :
        a \in Operands, op1 \in Ops, b \in Operands, op2 \in Ops, c \in Operands}

Paren4Inputs ==
    {Paren4(a, op1, b, op2, c, op3, d) :
        a \in Operands, op1 \in Ops, b \in Operands, op2 \in Ops,
        c \in Operands, op3 \in Ops, d \in Operands}

Inputs ==
    Strings(MaxLen) \cup Flat2Inputs \cup Flat3Inputs \cup Group3Inputs \cup Paren4Inputs

(***************************************************************************)
(* Outcomes of reading parsed.value in calc.                               *)
(***************************************************************************)
NoOutcome == [kind |-> "none", v |-> 0, exc |-> ""]

Returned(v) == [kind |-> "value", v |-> v, exc |-> ""]

Raised(exc) == [kind |-> "error", v |-> 0, exc |-> exc]

(***************************************************************************)
(* lex: the capture loop of the else branch, for j in range(i + 1, len).    *)
(* emit tells whether the loop left through its break, the only place      *)
(* where the INTEGER token is appended.                                    *)
(***************************************************************************)
RECURSIVE CaptureDigits(_, _, _, _)
CaptureDigits(s, j, k, digits) ==
    IF j >= Len(s) THEN [i |-> k, digits |-> digits, emit |-> FALSE]
    ELSE IF IsDigit(At(s, j))
         THEN CaptureDigits(s, j + 1, k + 1, Append(digits, At(s, j)))
         ELSE [i |-> k, digits |-> digits, emit |-> TRUE]

Init ==
    /\ input_ \in Inputs
    /\ pc = "lex"
    /\ i = 0
    /\ result = <<>>
    /\ stack = <<>>
    /\ parsed = None
    /\ outcome = NoOutcome
    /\ InterviewIdle
    /\ ba = <<>>
    /\ texts = <<>>
    /\ lexed = <<>>

LexPlus ==
    /\ pc = "lex"
    /\ i < Len(input_)
    /\ At(input_, i) = "+"
    /\ result' = Append(result, Token("PLUS", <<"+">>))
    /\ i' = i + 1
    /\ UNCHANGED <<input_, pc, stack, parsed, outcome>>
    /\ UNCHANGED others

LexMinus ==
    /\ pc = "lex"
    /\ i < Len(input_)
    /\ At(input_, i) = "-"
    /\ result' = Append(result, Token("MINUS", <<"-">>))
    /\ i' = i + 1
    /\ UNCHANGED <<input_, pc, stack, parsed, outcome>>
    /\ UNCHANGED others

LexLParen ==
    /\ pc = "lex"
    /\ i < Len(input_)
    /\ At(input_, i) = "("
    /\ result' = Append(result, Token("LPAREN", <<"(">>))
    /\ i' = i + 1
    /\ UNCHANGED <<input_, pc, stack, parsed, outcome>>
    /\ UNCHANGED others

LexRParen ==
    /\ pc = "lex"
    /\ i < Len(input_)
    /\ At(input_, i) = ")"
    /\ result' = Append(result, Token("RPAREN", <<")">>))
    /\ i' = i + 1
    /\ UNCHANGED <<input_, pc, stack, parsed, outcome>>
    /\ UNCHANGED others

\* An else branch that skips the closing i += 1 when the capture loop ran
\* to the end of the input.
LexInteger_NoAdvance ==
    /\ pc = "lex"
    /\ i < Len(input_)
    /\ At(input_, i) \notin OperatorChars
    /\ LET r == CaptureDigits(input_, i + 1, i, <<At(input_, i)>>)
       IN  /\ result' = IF r.emit
                        THEN Append(result, Token("INTEGER", r.digits))
                        ELSE result
           /\ i' = IF r.emit THEN r.i + 1 ELSE r.i
    /\ UNCHANGED <<input_, pc, stack, parsed, outcome>>
    /\ UNCHANGED others

LexInteger ==
    /\ pc = "lex"
    /\ i < Len(input_)
    /\ At(input_, i) \notin OperatorChars
    /\ LET r == CaptureDigits(input_, i + 1, i, <<At(input_, i)>>)
       IN  /\ result' = IF r.emit
                        THEN Append(result, Token("INTEGER", r.digits))
                        ELSE result
           /\ i' = r.i + 1
    /\ UNCHANGED <<input_, pc, stack, parsed, outcome>>
    /\ UNCHANGED others

(***************************************************************************)
(* parse: one frame per active call, the innermost last.                   *)
(***************************************************************************)
Frame(tokens) ==
    [tokens |-> tokens, i |-> 0, j |-> 0, has_left_side |-> FALSE,
     result |-> NewBinaryExpression]

LexReturn ==
    /\ pc = "lex"
    /\ i >= Len(input_)
    /\ pc' = "parse"
    /\ stack' = <<Frame(result)>>
    /\ UNCHANGED <<input_, i, result, parsed, outcome>>
    /\ UNCHANGED others

(***************************************************************************)
(* The inner scan of the LPAREN branch: from j = i, the first index that   *)
(* holds an RPAREN, or len(tokens) when none follows.                      *)
(***************************************************************************)
RECURSIVE FindRParen(_, _)
FindRParen(tokens, j) ==
    IF j < Len(tokens) /\ At(tokens, j).type_ # "RPAREN"
    THEN FindRParen(tokens, j + 1)
    ELSE j

Top == stack[Len(stack)]

SetTop(f) == [stack EXCEPT ![Len(stack)] = f]

\* An attach that sets left and leaves has_left_side as it was.
Attach_NoFlag(f, node) ==
    IF ~f.has_left_side
    THEN [f EXCEPT !.result.left = node]
    ELSE [f EXCEPT !.result.right = node]

\* An attach that fills right once and drops every later operand.
Attach_FirstTwo(f, node) ==
    IF ~f.has_left_side
    THEN [f EXCEPT !.result.left = node, !.has_left_side = TRUE]
    ELSE IF f.result.right = [kind |-> "None"]
         THEN [f EXCEPT !.result.right = node]
         ELSE f

(***************************************************************************)
(* if not has_left_side: result.left = x; has_left_side = True             *)
(* else: result.right = x                                                  *)
(***************************************************************************)
Attach(f, node) ==
    IF ~f.has_left_side
    THEN [f EXCEPT !.result.left = node, !.has_left_side = TRUE]
    ELSE [f EXCEPT !.result.right = node]

\* An operator assignment that keeps the operator already recorded.
SetType_KeepFirst(f, type_) ==
    IF f.result.type_ = "None" THEN [f EXCEPT !.result.type_ = type_] ELSE f

SetType(f, type_) == [f EXCEPT !.result.type_ = type_]

\* A loop body without its closing i += 1.
Advance_Stuck(f) == f

Advance(f) == [f EXCEPT !.i = f.i + 1]

Scanning ==
    /\ pc = "parse"
    /\ Top.i < Len(Top.tokens)

ParseInteger ==
    /\ Scanning
    /\ At(Top.tokens, Top.i).type_ = "INTEGER"
    /\ IntOK(At(Top.tokens, Top.i).text)
    /\ stack' = SetTop(Advance(Attach(Top, Integer(IntOf(At(Top.tokens, Top.i).text)))))
    /\ UNCHANGED <<input_, pc, i, result, parsed, outcome>>
    /\ UNCHANGED others

\* int(token.text) raises ValueError; nothing catches it, calc ends with it.
ParseIntegerRaises ==
    /\ Scanning
    /\ At(Top.tokens, Top.i).type_ = "INTEGER"
    /\ ~IntOK(At(Top.tokens, Top.i).text)
    /\ stack' = <<>>
    /\ pc' = "done"
    /\ outcome' = Raised("ValueError")
    /\ UNCHANGED <<input_, i, result, parsed>>
    /\ UNCHANGED others

ParsePlus ==
    /\ Scanning
    /\ At(Top.tokens, Top.i).type_ = "PLUS"
    /\ stack' = SetTop(Advance(SetType(Top, "ADDITION")))
    /\ UNCHANGED <<input_, pc, i, result, parsed, outcome>>
    /\ UNCHANGED others

ParseMinus ==
    /\ Scanning
    /\ At(Top.tokens, Top.i).type_ = "MINUS"
    /\ stack' = SetTop(Advance(SetType(Top, "SUBTRACTION")))
    /\ UNCHANGED <<input_, pc, i, result, parsed, outcome>>
    /\ UNCHANGED others

\* The call parse(tokens[i + 1:j]); the caller waits with its j.
ParseLParen ==
    /\ Scanning
    /\ At(Top.tokens, Top.i).type_ = "LPAREN"
    /\ LET j == FindRParen(Top.tokens, Top.i)
       IN  stack' = Append(SetTop([Top EXCEPT !.j = j]),
                           Frame(Slice(Top.tokens, Top.i + 1, j)))
    /\ UNCHANGED <<input_, pc, i, result, parsed, outcome>>
    /\ UNCHANGED others

\* No branch of the if chain takes an RPAREN: only i += 1 runs.
ParseRParen ==
    /\ Scanning
    /\ At(Top.tokens, Top.i).type_ = "RPAREN"
    /\ stack' = SetTop(Advance(Top))
    /\ UNCHANGED <<input_, pc, i, result, parsed, outcome>>
    /\ UNCHANGED others

\* A resume without i = j: the caller goes on at the token after the LPAREN.
Resume_NoJump(caller, element) ==
    [Attach(caller, element) EXCEPT !.i = caller.i + 1]

\* The callee's return and the rest of the caller's LPAREN branch:
\* element attached, i = j, i += 1.
Resume(caller, element) == [Attach(caller, element) EXCEPT !.i = caller.j + 1]

ParseReturnToCaller ==
    /\ pc = "parse"
    /\ Len(stack) > 1
    /\ Top.i >= Len(Top.tokens)
    /\ stack' = Append(SubSeq(stack, 1, Len(stack) - 2),
                       Resume(stack[Len(stack) - 1], Top.result))
    /\ UNCHANGED <<input_, pc, i, result, parsed, outcome>>
    /\ UNCHANGED others

ParseReturn ==
    /\ pc = "parse"
    /\ Len(stack) = 1
    /\ Top.i >= Len(Top.tokens)
    /\ parsed' = Top.result
    /\ stack' = <<>>
    /\ pc' = "eval"
    /\ UNCHANGED <<input_, i, result, outcome>>
    /\ UNCHANGED others

(***************************************************************************)
(* The value property.  Reading .value of None raises AttributeError.      *)
(***************************************************************************)
\* A value property whose else branch subtracts the operands the other way.
Combine_Reversed(type_, l, r) == IF type_ = "ADDITION" THEN l + r ELSE r - l

Combine(type_, l, r) == IF type_ = "ADDITION" THEN l + r ELSE l - r

\* A value property that reads an unset operand as 0.
RECURSIVE Value_NoneAsZero(_)
Value_NoneAsZero(node) ==
    IF node.kind = "Integer" THEN [ok |-> TRUE, v |-> node.value]
    ELSE IF node.kind = "None" THEN [ok |-> TRUE, v |-> 0]
    ELSE [ok |-> TRUE,
          v |-> Combine(node.type_, Value_NoneAsZero(node.left).v,
                        Value_NoneAsZero(node.right).v)]

RECURSIVE Value(_)
Value(node) ==
    IF node.kind = "Integer" THEN [ok |-> TRUE, v |-> node.value]
    ELSE IF node.kind = "None" THEN [ok |-> FALSE, v |-> 0]
    ELSE LET l == Value(node.left)
             r == Value(node.right)
         IN  IF l.ok /\ r.ok
             THEN [ok |-> TRUE, v |-> Combine(node.type_, l.v, r.v)]
             ELSE [ok |-> FALSE, v |-> 0]

Evaluate ==
    /\ pc = "eval"
    /\ outcome' = LET v == Value(parsed)
                  IN  IF v.ok THEN Returned(v.v) ELSE Raised("AttributeError")
    /\ pc' = "done"
    /\ UNCHANGED <<input_, i, result, stack, parsed>>
    /\ UNCHANGED others

Next ==
    \/ LexPlus
    \/ LexMinus
    \/ LexLParen
    \/ LexRParen
    \/ LexInteger
    \/ LexReturn
    \/ ParseInteger
    \/ ParseIntegerRaises
    \/ ParsePlus
    \/ ParseMinus
    \/ ParseLParen
    \/ ParseRParen
    \/ ParseReturnToCaller
    \/ ParseReturn
    \/ Evaluate

Spec == Init /\ [][Next]_vars

(***************************************************************************)
(* lex alone, run to its return.  The while loop of lex goes on as long as *)
(* it can take a step: weak fairness of its steps.                         *)
(***************************************************************************)
LexNext ==
    \/ LexPlus
    \/ LexMinus
    \/ LexLParen
    \/ LexRParen
    \/ LexInteger
    \/ LexReturn

LexSpec == Init /\ [][LexNext]_vars /\ WF_vars(LexNext)

(***************************************************************************)
(* Properties.                                                             *)
(*                                                                         *)
(* LexReturned: lex has returned and result is its token list.             *)
(***************************************************************************)
LexReturned == pc # "lex"

TokenTypeOf(c) ==
    CASE c = "+" -> "PLUS"
      [] c = "-" -> "MINUS"
      [] c = "(" -> "LPAREN"
      [] c = ")" -> "RPAREN"

\* The length of the maximal run of digits that s starts with.
DigitRun(s) ==
    CHOOSE n \in 0..Len(s) :
        /\ \A k \in 1..n : IsDigit(s[k])
        /\ n = Len(s) \/ ~IsDigit(s[n + 1])

\* The tokens of a string of digits and + - ( ): one token per operator or
\* parenthesis character, one INTEGER token per maximal run of digits.
RECURSIVE ExpectedTokens(_)
ExpectedTokens(s) ==
    IF s = <<>> THEN <<>>
    ELSE IF Head(s) \in OperatorChars
         THEN <<Token(TokenTypeOf(Head(s)), <<Head(s)>>)>> \o ExpectedTokens(Tail(s))
         ELSE <<Token("INTEGER", SubSeq(s, 1, DigitRun(s)))>>
                  \o ExpectedTokens(SubSeq(s, DigitRun(s) + 1, Len(s)))

WellFormed(s) == \A k \in 1..Len(s) : IsDigit(s[k]) \/ s[k] \in OperatorChars

Arith(op, a, b) == IF op = "+" THEN a + b ELSE a - b

\* C1: for every input of digits and + - ( ), lex returns, in input order,
\* one token per operator or parenthesis character and one INTEGER token per
\* maximal run of digits, also for a run that reaches the end of the input
\* (lex("2+3") is [INTEGER 2, PLUS, INTEGER 3]).
C1_LexTokenizes ==
    (LexReturned /\ WellFormed(input_)) => result = ExpectedTokens(input_)

\* The strings "a op b" with the result of the direct arithmetic.
Flat2Cases ==
    {[input |-> Flat2(a, op, b), value |-> Arith(op, a, b)] :
        a \in Operands, op \in Ops, b \in Operands}

\* C2: for all non-negative integers a, b and op in {+, -}, the value of
\* parse(lex("a op b")) is a op b.
C2_Flat2Value ==
    pc = "done" =>
        \A e \in Flat2Cases : input_ = e.input => outcome = Returned(e.value)

\* The strings "(a op1 b) op2 (c op3 d)" with the result of the direct
\* arithmetic.
Paren4Cases ==
    {[input |-> Paren4(a, op1, b, op2, c, op3, d),
      value |-> Arith(op2, Arith(op1, a, b), Arith(op3, c, d))] :
        a \in Operands, op1 \in Ops, b \in Operands, op2 \in Ops,
        c \in Operands, op3 \in Ops, d \in Operands}

\* C3: for all non-negative integers a, b, c, d and op1, op2, op3 in {+, -},
\* the value of parse(lex("(a op1 b) op2 (c op3 d)")) is
\* (a op1 b) op2 (c op3 d); "(2+3)-(1+3)" gives 1.
C3_Paren4Value ==
    pc = "done" =>
        \A e \in Paren4Cases : input_ = e.input => outcome = Returned(e.value)

C3_Witness ==
    /\ pc = "done"
    /\ input_ = Paren4(2, "+", 3, "-", 1, "+", 3)
    /\ outcome = Returned(1)

(***************************************************************************)
(* A token run as the claims describe it.  Position k of run T is outside  *)
(* the parentheses when every LPAREN before k is followed by an RPAREN     *)
(* before k; the group of an LPAREN at k ends at the first RPAREN after k, *)
(* or at the end of the run.                                               *)
(***************************************************************************)
TypeAt(T, k) == At(T, k).type_

Outside(T, k) ==
    \A m \in 0..(k - 1) :
        TypeAt(T, m) = "LPAREN" => \E r \in (m + 1)..(k - 1) : TypeAt(T, r) = "RPAREN"

GroupEnd(T, k) ==
    CHOOSE j \in (k + 1)..Len(T) :
        /\ j = Len(T) \/ TypeAt(T, j) = "RPAREN"
        /\ \A m \in (k + 1)..(j - 1) : TypeAt(T, m) # "RPAREN"

OperandPositions(T) ==
    {k \in 0..(Len(T) - 1) : Outside(T, k) /\ TypeAt(T, k) \in {"INTEGER", "LPAREN"}}

OperatorPositions(T) ==
    {k \in 0..(Len(T) - 1) : Outside(T, k) /\ TypeAt(T, k) \in {"PLUS", "MINUS"}}

Least(S) == CHOOSE k \in S : \A m \in S : k <= m

Greatest(S) == CHOOSE k \in S : \A m \in S : m <= k

Second(S) == Least(S \ {Least(S)})

OperatorOf(T, k) == IF TypeAt(T, k) = "PLUS" THEN "ADDITION" ELSE "SUBTRACTION"

\* The node of run T: first operand, last operand, last operator.
RECURSIVE NodeOf(_)
NodeOf(T) ==
    LET ops == OperandPositions(T)
        Operand(k) ==
            IF TypeAt(T, k) = "INTEGER"
            THEN Integer(IntOf(At(T, k).text))
            ELSE NodeOf(Slice(T, k + 1, GroupEnd(T, k)))
    IN  BinaryExpression(
            IF OperatorPositions(T) = {} THEN "None"
            ELSE OperatorOf(T, Greatest(OperatorPositions(T))),
            IF ops = {} THEN None ELSE Operand(Least(ops)),
            IF Cardinality(ops) < 2 THEN None ELSE Operand(Greatest(ops)))

OperandNode(T, k) ==
    IF TypeAt(T, k) = "INTEGER"
    THEN Integer(IntOf(At(T, k).text))
    ELSE NodeOf(Slice(T, k + 1, GroupEnd(T, k)))

\* The innermost call of parse has scanned all its tokens and is about to
\* return its node.
Completed ==
    /\ pc = "parse"
    /\ stack # <<>>
    /\ Top.i >= Len(Top.tokens)

\* C4: when parse scans a run with three or more operands, left is the
\* first operand and right is the second operand; the third and later
\* operands are dropped.
C4_RightIsSecondOperand ==
    (Completed /\ Cardinality(OperandPositions(Top.tokens)) >= 3) =>
        /\ Top.result.left = OperandNode(Top.tokens, Least(OperandPositions(Top.tokens)))
        /\ Top.result.right = OperandNode(Top.tokens, Second(OperandPositions(Top.tokens)))

\* C4, amended: when parse scans a run with three or more operands, left is
\* the first operand and right is the last operand; the operands between
\* them are overwritten and do not change the node.
C4_RightIsLastOperand ==
    (Completed /\ Cardinality(OperandPositions(Top.tokens)) >= 3) =>
        /\ Top.result.left = OperandNode(Top.tokens, Least(OperandPositions(Top.tokens)))
        /\ Top.result.right = OperandNode(Top.tokens, Greatest(OperandPositions(Top.tokens)))

C4_Witness ==
    /\ Completed
    /\ Cardinality(OperandPositions(Top.tokens)) >= 3
    /\ OperandNode(Top.tokens, Second(OperandPositions(Top.tokens)))
           # OperandNode(Top.tokens, Greatest(OperandPositions(Top.tokens)))
    /\ Top.result.right = OperandNode(Top.tokens, Greatest(OperandPositions(Top.tokens)))

\* The strings "a op1 b op2 c" with the first and the last operand.
Flat3Cases ==
    {[input |-> Flat3(a, op1, b, op2, c), first |-> a, last |-> c] :
        a \in Operands, op1 \in Ops, b \in Operands, op2 \in Ops, c \in Operands}

\* C5: for a flat expression "a op1 b op2 c" the value of parse(lex(expr))
\* combines the first operand a and the last operand c with one operator;
\* the middle operand b does not contribute.
C5_FirstAndLastCombine ==
    pc = "done" =>
        \A e \in Flat3Cases :
            input_ = e.input =>
                \E op \in Ops : outcome = Returned(Arith(op, e.first, e.last))

\* C6: after parse of a run the node keeps exactly one operator, that of
\* the last PLUS or MINUS token outside parentheses; earlier operators are
\* overwritten and operators inside a group never set it.
C6_LastOperatorKept ==
    Completed =>
        Top.result.type_ =
            IF OperatorPositions(Top.tokens) = {} THEN "None"
            ELSE OperatorOf(Top.tokens, Greatest(OperatorPositions(Top.tokens)))

\* Two operators outside parentheses, the last one differing from the first,
\* and after them a group that holds an operator of the other kind.
C6_Witness ==
    /\ Completed
    /\ Cardinality(OperatorPositions(Top.tokens)) >= 2
    /\ OperatorOf(Top.tokens, Least(OperatorPositions(Top.tokens)))
           # OperatorOf(Top.tokens, Greatest(OperatorPositions(Top.tokens)))
    /\ \E k \in 0..(Len(Top.tokens) - 1) :
           /\ k > Greatest(OperatorPositions(Top.tokens))
           /\ ~Outside(Top.tokens, k)
           /\ TypeAt(Top.tokens, k) \in {"PLUS", "MINUS"}
           /\ OperatorOf(Top.tokens, k) # Top.result.type_
    /\ Top.result.type_ = OperatorOf(Top.tokens, Greatest(OperatorPositions(Top.tokens)))

\* C7: on an LPAREN at index i parse takes the first RPAREN at j > i,
\* parses exactly tokens i+1..j-1 in a recursive call as one operand and
\* resumes the outer scan at j+1; while the call runs no frame below it
\* changes, so the outer node processes no token between the parentheses.
\* Without an RPAREN, j is len(tokens): the call gets all remaining tokens
\* and the outer scan ends.
C7_Call ==
    (Scanning /\ TypeAt(Top.tokens, Top.i) = "LPAREN") =>
        /\ Len(stack') = Len(stack) + 1
        /\ stack'[Len(stack')] =
               Frame(Slice(Top.tokens, Top.i + 1, GroupEnd(Top.tokens, Top.i)))
        /\ stack'[Len(stack)].i = Top.i
        /\ stack'[Len(stack)].result = Top.result
        /\ stack'[Len(stack)].has_left_side = Top.has_left_side

C7_ReturnToCaller ==
    (Completed /\ Len(stack) > 1) =>
        /\ Len(stack') = Len(stack) - 1
        /\ stack'[Len(stack')].tokens = stack[Len(stack) - 1].tokens
        /\ stack'[Len(stack')].i =
               GroupEnd(stack[Len(stack) - 1].tokens, stack[Len(stack) - 1].i) + 1
        /\ stack'[Len(stack')].result =
               IF stack[Len(stack) - 1].has_left_side
               THEN [stack[Len(stack) - 1].result EXCEPT !.right = Top.result]
               ELSE [stack[Len(stack) - 1].result EXCEPT !.left = Top.result]

C7_CallersWait ==
    \A d \in 1..(Len(stack) - 1) :
        d < Len(stack') => stack'[d] = stack[d]

C7_GroupIsOneOperand == [][C7_Call /\ C7_ReturnToCaller /\ C7_CallersWait]_vars

\* The outer call has resumed after the first RPAREN of a run that opens
\* with two LPARENs: the group ended at the first RPAREN, not the matching one.
C7_Witness ==
    /\ pc = "parse"
    /\ Len(stack) = 1
    /\ Len(Top.tokens) >= 4
    /\ TypeAt(Top.tokens, 0) = "LPAREN"
    /\ TypeAt(Top.tokens, 1) = "LPAREN"
    /\ Top.j < Len(Top.tokens)
    /\ TypeAt(Top.tokens, Top.j) = "RPAREN"
    /\ Top.i = Top.j + 1
    /\ Top.has_left_side
    /\ Top.result.left.kind = "BinaryExpression"

SingleInteger(T) ==
    /\ Len(T) = 1
    /\ TypeAt(T, 0) = "INTEGER"
    /\ IntOK(At(T, 0).text)

\* C8: parse of a token list that is a single INTEGER token (its text an
\* integer literal) returns a node with left set and operator and right
\* unset, and reading .value of that node is an error, never a number.
C8_SingleIntegerHasNoValue ==
    /\ (Completed /\ SingleInteger(Top.tokens)) =>
           Top.result =
               BinaryExpression("None", Integer(IntOf(At(Top.tokens, 0).text)), None)
    /\ (pc = "done" /\ SingleInteger(result)) =>
           /\ parsed = BinaryExpression("None", Integer(IntOf(At(result, 0).text)), None)
           /\ outcome.kind = "error"

C8_Witness ==
    /\ pc = "done"
    /\ SingleInteger(result)
    /\ parsed.left = Integer(1)
    /\ parsed.right = None
    /\ outcome = Raised("AttributeError")

\* C9: reading .value of a node whose operator is unset yields an error and
\* not an integer, also when left and right are both set.
C9_UnsetOperatorIsError ==
    (pc = "done" /\ parsed # None /\ parsed.type_ = "None") => outcome.kind = "error"

IsToken(t) ==
    /\ DOMAIN t = {"type_", "text"}
    /\ t.type_ \in TokenTypes
    /\ t.text # <<>>

\* C10: lex terminates and returns a token list, without raising, for every
\* finite input string, also one with characters other than digits and
\* + - ( ), and the empty string.
C10_LexTerminates ==
    <>(/\ pc = "parse"
       /\ i >= Len(input_)
       /\ \A k \in 1..Len(result) : IsToken(result[k]))

\* lex has returned on an input that holds a character that is neither a
\* digit nor one of + - ( ).
C10_Witness ==
    /\ pc = "parse"
    /\ \E k \in 1..Len(input_) : ~IsDigit(input_[k]) /\ input_[k] \notin OperatorChars
    /\ stack = <<Frame(result)>>

(***************************************************************************)
(* parse called on its own, on any token list: the token kinds in any      *)
(* order, INTEGER texts of one and of two digits and one that int()        *)
(* rejects.  The while loops of parse go on as long as they can.           *)
(***************************************************************************)
MaxTokens == 4

TokenValues ==
    {Token("INTEGER", <<"1">>), Token("INTEGER", <<"1", "2">>),
     Token("INTEGER", <<"a">>), Token("PLUS", <<"+">>), Token("MINUS", <<"-">>),
     Token("LPAREN", <<"(">>), Token("RPAREN", <<")">>)}

TokenLists == UNION {[1..k -> TokenValues] : k \in 0..MaxTokens}

ParseInit ==
    /\ input_ = <<>>
    /\ pc = "parse"
    /\ i = 0
    /\ result \in TokenLists
    /\ stack = <<Frame(result)>>
    /\ parsed = None
    /\ outcome = NoOutcome
    /\ InterviewIdle
    /\ ba = <<>>
    /\ texts = <<>>
    /\ lexed = <<>>

ParseNext ==
    \/ ParseInteger
    \/ ParseIntegerRaises
    \/ ParsePlus
    \/ ParseMinus
    \/ ParseLParen
    \/ ParseRParen
    \/ ParseReturnToCaller
    \/ ParseReturn

ParseSpec == ParseInit /\ [][ParseNext]_vars /\ WF_vars(ParseNext)

DigitTexts(T) ==
    \A k \in 1..Len(T) :
        T[k].type_ = "INTEGER" =>
            /\ T[k].text # <<>>
            /\ \A d \in 1..Len(T[k].text) : IsDigit(T[k].text[d])

\* A step of parse: a loop iteration of the innermost call moves its i
\* forward, a recursive call gets fewer tokens than its caller has, and the
\* iteration that made the call ends with the caller's i moved forward.
C11_Progress ==
    (pc = "parse" /\ pc' = "parse") =>
        /\ Len(stack') = Len(stack) =>
               /\ stack'[Len(stack')].tokens = Top.tokens
               /\ stack'[Len(stack')].i > Top.i
        /\ Len(stack') = Len(stack) + 1 =>
               Len(stack'[Len(stack')].tokens) < Len(Top.tokens)
        /\ Len(stack') = Len(stack) - 1 =>
               /\ stack'[Len(stack')].tokens = stack[Len(stack) - 1].tokens
               /\ stack'[Len(stack')].i > stack[Len(stack) - 1].i

\* C11: parse reaches the end of the token stream and returns the root node
\* for every token list whose INTEGER texts are digit strings, also with an
\* unmatched LPAREN, a stray RPAREN or missing operands; the scan index
\* strictly increases in every loop iteration and every recursive call is on
\* a strictly shorter token list.
C11_ParseTerminates ==
    /\ [][C11_Progress]_vars
    /\ [](DigitTexts(result) =>
              <>(pc = "eval" /\ stack = <<>> /\ parsed.kind = "BinaryExpression"))

\* parse has returned the root for a list with a stray RPAREN, then an
\* LPAREN that no RPAREN follows, and no INTEGER at all.
C11_Witness ==
    /\ pc = "eval"
    /\ parsed.kind = "BinaryExpression"
    /\ Len(result) >= 2
    /\ result[1].type_ = "RPAREN"
    /\ result[Len(result)].type_ = "LPAREN"
    /\ \A k \in 1..Len(result) : result[k].type_ # "INTEGER"

(***************************************************************************)
(* The three named states of the scan of one node.                         *)
(***************************************************************************)
AWAITING_LEFT(f) ==
    ~f.has_left_side /\ f.result.type_ = "None" /\ f.result.right = None

HAVE_LEFT_AWAITING_OPERATOR_OR_RIGHT(f) ==
    f.has_left_side /\ f.result.type_ = "None" /\ f.result.right = None

HAVE_LEFT_AND_OPERATOR_AWAITING_RIGHT(f) ==
    f.has_left_side /\ f.result.type_ # "None" /\ f.result.right = None

\* C12: every combination of (has_left_side, operator set, right set) that
\* the scan of a node reaches is one of the three states AWAITING_LEFT,
\* HAVE_LEFT_AWAITING_OPERATOR_OR_RIGHT, HAVE_LEFT_AND_OPERATOR_AWAITING_RIGHT,
\* so no operator is recorded while left is unset.
C12_ThreeStates ==
    pc = "parse" =>
        \A d \in 1..Len(stack) :
            \/ AWAITING_LEFT(stack[d])
            \/ HAVE_LEFT_AWAITING_OPERATOR_OR_RIGHT(stack[d])
            \/ HAVE_LEFT_AND_OPERATOR_AWAITING_RIGHT(stack[d])

C12_FlagsAgree ==
    pc = "parse" =>
        \A d \in 1..Len(stack) :
            /\ stack[d].has_left_side <=> stack[d].result.left # None
            /\ stack[d].result.right # None => stack[d].has_left_side

C12_LeftStays ==
    \A d \in 1..Len(stack) :
        (d <= Len(stack') /\ stack[d].has_left_side) => stack'[d].has_left_side

\* C12, amended: in every state of the scan of a node has_left_side is true
\* exactly when left is set, right is set only when has_left_side is true,
\* and has_left_side never returns to false; the operator can be recorded
\* in any of these states, also while left is unset.
C12_ScanFlags == []C12_FlagsAgree /\ [][C12_LeftStays]_vars

\* An operator is recorded and left is still unset.
C12_Witness ==
    /\ pc = "parse"
    /\ stack # <<>>
    /\ ~Top.has_left_side
    /\ Top.result.left = None
    /\ Top.result.type_ # "None"

(***************************************************************************)
(* Characters that are neither digits nor + - ( ).                         *)
(***************************************************************************)
OtherChar(c) == ~IsDigit(c) /\ c \notin OperatorChars

HasOtherChar(s) == \E k \in 1..Len(s) : OtherChar(s[k])

\* The texts of a token list, one after the other.
RECURSIVE TextsOf(_)
TextsOf(T) == IF T = <<>> THEN <<>> ELSE Head(T).text \o TextsOf(Tail(T))

\* C13: for every input that holds a character that is neither a digit nor
\* one of + - ( ), lex puts that character into the text of an INTEGER token
\* (no character is dropped, none goes into a token of another kind), and
\* parse of the token list fails at the integer conversion.
C13_OtherCharsFailConversion ==
    HasOtherChar(input_) =>
        /\ LexReturned =>
               /\ TextsOf(result) = input_
               /\ \A k \in 1..Len(result) :
                      result[k].type_ # "INTEGER" => ~HasOtherChar(result[k].text)
        /\ pc # "eval"
        /\ pc = "done" => outcome = Raised("ValueError")

(***************************************************************************)
(* A caller that tokenizes texts[1], then tokenizes and parses texts[2],   *)
(* then tokenizes texts[1] again, and keeps what lex returned each time.   *)
(* LexEntry is the entry of lex: result = [] and i = 0 are set anew.       *)
(***************************************************************************)
MaxAgainLen == 3

OtherTexts ==
    {<<>>, <<"1", "+">>, <<"(", "a", ")">>, <<"(", "1", ")", "-", "1", ")">>}

\* A lex whose result list lives on from one call to the next.
LexEntry_KeepsResult(s) ==
    /\ input_' = s
    /\ i' = 0
    /\ result' = result
    /\ pc' = "lex"

LexEntry(s) ==
    /\ input_' = s
    /\ i' = 0
    /\ result' = <<>>
    /\ pc' = "lex"

LexTwiceInit ==
    /\ texts \in Strings(MaxAgainLen) \X OtherTexts
    /\ lexed = <<>>
    /\ input_ = texts[1]
    /\ pc = "lex"
    /\ i = 0
    /\ result = <<>>
    /\ stack = <<>>
    /\ parsed = None
    /\ outcome = NoOutcome
    /\ InterviewIdle
    /\ ba = <<>>

LexReturnFirst ==
    /\ pc = "lex"
    /\ i >= Len(input_)
    /\ Len(lexed) = 0
    /\ lexed' = <<result>>
    /\ LexEntry(texts[2])
    /\ UNCHANGED <<stack, parsed, outcome, texts, interview, ba>>

LexReturnOther ==
    /\ pc = "lex"
    /\ i >= Len(input_)
    /\ Len(lexed) = 1
    /\ lexed' = Append(lexed, result)
    /\ pc' = "parse"
    /\ stack' = <<Frame(result)>>
    /\ UNCHANGED <<input_, i, result, parsed, outcome, texts, interview, ba>>

LexAgain ==
    /\ pc \in {"eval", "done"}
    /\ Len(lexed) = 2
    /\ LexEntry(texts[1])
    /\ UNCHANGED <<stack, parsed, outcome, texts, lexed, interview, ba>>

LexReturnSecond ==
    /\ pc = "lex"
    /\ i >= Len(input_)
    /\ Len(lexed) = 2
    /\ lexed' = Append(lexed, result)
    /\ pc' = "done"
    /\ UNCHANGED <<input_, i, result, stack, parsed, outcome, texts, interview, ba>>

LexTwiceNext ==
    \/ LexPlus
    \/ LexMinus
    \/ LexLParen
    \/ LexRParen
    \/ LexInteger
    \/ LexReturnFirst
    \/ LexReturnOther
    \/ ParseInteger
    \/ ParseIntegerRaises
    \/ ParsePlus
    \/ ParseMinus
    \/ ParseLParen
    \/ ParseRParen
    \/ ParseReturnToCaller
    \/ ParseReturn
    \/ LexAgain
    \/ LexReturnSecond

LexTwiceSpec == LexTwiceInit /\ [][LexTwiceNext]_vars

\* C14: lex keeps no state between calls: tokenizing the same string twice,
\* with another lex call and a parse call in between, yields two token
\* sequences equal in length, kinds and texts.
C14_LexTwiceEqual ==
    Len(lexed) = 3 =>
        /\ Len(lexed[3]) = Len(lexed[1])
        /\ \A k \in 1..Len(lexed[1]) :
               /\ lexed[3][k].type_ = lexed[1][k].type_
               /\ lexed[3][k].text = lexed[1][k].text

\* Both calls have returned a non-empty token list, and the call in between
\* returned another one, which parse made a node of.
C14_Witness ==
    /\ Len(lexed) = 3
    /\ lexed[1] # <<>>
    /\ lexed[2] # <<>>
    /\ lexed[2] # lexed[1]
    /\ parsed # None
    /\ lexed[3] = lexed[1]

(***************************************************************************)
(* src/Interview_Problems.  The interpreter is not running.                *)
(***************************************************************************)
InterpreterIdle ==
    /\ input_ = <<>>
    /\ pc = "idle"
    /\ i = 0
    /\ result = <<>>
    /\ stack = <<>>
    /\ parsed = None
    /\ outcome = NoOutcome
    /\ texts = <<>>
    /\ lexed = <<>>

\* return value: the function named name has returned value.
Return(name, value) ==
    /\ ret' = ret @@ (name :> value)
    /\ fn' = ""
    /\ locals' = <<>>

Called(name) == name \in DOMAIN ret

Max2(a, b) == IF a >= b THEN a ELSE b

SetMax(S) == CHOOSE x \in S : \A y \in S : y <= x

(***************************************************************************)
(* depth_first_breadth_first_binary_tree.py: the binary trees.  A tree is  *)
(* None or a Node with a value, a left and a right tree.                   *)
(***************************************************************************)
MaxNodes == 3

TreeValues == {-1, 1, 2}

TreeNode(value, left, right) ==
    [kind |-> "Node", value |-> value, left |-> left, right |-> right]

Leaf(value) == TreeNode(value, None, None)

RECURSIVE TreesOfSize(_)
TreesOfSize(n) ==
    IF n = 0 THEN {None}
    ELSE UNION {{TreeNode(v, l, r) :
                    v \in TreeValues, l \in TreesOfSize(k), r \in TreesOfSize(n - 1 - k)} :
                k \in 0..(n - 1)}

\* The tree root2 of the module.
root2 ==
    TreeNode(5, TreeNode(11, Leaf(4), Leaf(5)), TreeNode(3, None, Leaf(12)))

Trees == UNION {TreesOfSize(n) : n \in 0..MaxNodes} \cup {root2}

RECURSIVE max_path_sum(_)
max_path_sum(root_elem) ==
    IF root_elem = None THEN 0
    ELSE IF root_elem.left = None /\ root_elem.right = None THEN root_elem.value
    ELSE root_elem.value
             + Max2(max_path_sum(root_elem.left), max_path_sum(root_elem.left))

TreeInit ==
    /\ InterpreterIdle
    /\ ba = <<>>
    /\ fn = ""
    /\ args \in [root_elem : Trees]
    /\ locals = <<>>
    /\ ret = <<>>
    /\ nodes = <<>>

CallMaxPathSum ==
    /\ fn = ""
    /\ ~Called("max_path_sum")
    /\ Return("max_path_sum", max_path_sum(args.root_elem))
    /\ UNCHANGED <<args, nodes, interpreter, ba>>

\* depth_first_iter, one action per pass of the while loop.
DepthFirstIterEmpty ==
    /\ fn = ""
    /\ ~Called("depth_first_iter")
    /\ args.root_elem = None
    /\ Return("depth_first_iter", <<>>)
    /\ UNCHANGED <<args, nodes, interpreter, ba>>

DepthFirstIterEntry ==
    /\ fn = ""
    /\ ~Called("depth_first_iter")
    /\ args.root_elem # None
    /\ fn' = "depth_first_iter"
    /\ locals' = [result |-> <<>>, stack |-> <<args.root_elem>>]
    /\ UNCHANGED <<args, ret, nodes, interpreter, ba>>

\* stack.append(child) when the child is there.
Push(stk, child) == IF child # None THEN Append(stk, child) ELSE stk

DepthFirstIterLoop_LeftFirst ==
    /\ fn = "depth_first_iter"
    /\ locals.stack # <<>>
    /\ LET current == locals.stack[Len(locals.stack)]
           popped == SubSeq(locals.stack, 1, Len(locals.stack) - 1)
       IN  locals' = [result |-> Append(locals.result, current.value),
                      stack |-> Push(Push(popped, current.left), current.right)]
    /\ UNCHANGED <<fn, args, ret, nodes, interpreter, ba>>

DepthFirstIterLoop ==
    /\ fn = "depth_first_iter"
    /\ locals.stack # <<>>
    /\ LET current == locals.stack[Len(locals.stack)]
           popped == SubSeq(locals.stack, 1, Len(locals.stack) - 1)
       IN  locals' = [result |-> Append(locals.result, current.value),
                      stack |-> Push(Push(popped, current.right), current.left)]
    /\ UNCHANGED <<fn, args, ret, nodes, interpreter, ba>>

DepthFirstIterReturn ==
    /\ fn = "depth_first_iter"
    /\ locals.stack = <<>>
    /\ Return("depth_first_iter", locals.result)
    /\ UNCHANGED <<args, nodes, interpreter, ba>>

RECURSIVE depth_first_recurse(_)
depth_first_recurse(root_elem) ==
    IF root_elem = None THEN <<>>
    ELSE LET left_elements == depth_first_recurse(root_elem.left)
             right_elements == depth_first_recurse(root_elem.right)
         IN  <<root_elem.value>> \o left_elements \o right_elements

CallDepthFirstRecurse ==
    /\ fn = ""
    /\ ~Called("depth_first_recurse")
    /\ Return("depth_first_recurse", depth_first_recurse(args.root_elem))
    /\ UNCHANGED <<args, nodes, interpreter, ba>>

TreeNext ==
    \/ CallMaxPathSum
    \/ DepthFirstIterEmpty
    \/ DepthFirstIterEntry
    \/ DepthFirstIterLoop
    \/ DepthFirstIterReturn
    \/ CallDepthFirstRecurse

TreeSpec == TreeInit /\ [][TreeNext]_vars

\* The sums of the values along the paths from the root to a leaf.
RECURSIVE PathSums(_)
PathSums(t) ==
    IF t = None THEN {}
    ELSE IF t.left = None /\ t.right = None THEN {t.value}
    ELSE {t.value + x : x \in PathSums(t.left) \cup PathSums(t.right)}

\* C15: for every binary tree max_path_sum returns the maximum, over all
\* root-to-leaf paths, of the sum of the node values on the path, and 0 for
\* the empty tree.
C15_MaxPathSum ==
    Called("max_path_sum") =>
        ret["max_path_sum"] =
            IF args.root_elem = None THEN 0 ELSE SetMax(PathSums(args.root_elem))

(***************************************************************************)
(* recursion.py: min_change.  Its body is a lone pass statement, so every  *)
(* call returns None.                                                      *)
(***************************************************************************)
MaxAmount == 8

MaxCoins == 2

CoinValues == {1, 4, 5}

\* The coin lists: short lists of coin values and the list of the first
\* assert of the module.
CoinLists ==
    UNION {[1..n -> CoinValues] : n \in 0..MaxCoins} \cup {<<1, 5, 4, 12>>}

\* A Python int, as a returned object.
int(n) == [kind |-> "int", value |-> n]

min_change(amount, coins) == None

RecursionInit ==
    /\ InterpreterIdle
    /\ ba = <<>>
    /\ fn = ""
    /\ args \in [amount : 0..MaxAmount, coins : CoinLists]
    /\ locals = <<>>
    /\ ret = <<>>
    /\ nodes = <<>>

CallMinChange ==
    /\ fn = ""
    /\ ~Called("min_change")
    /\ Return("min_change", min_change(args.amount, args.coins))
    /\ UNCHANGED <<args, nodes, interpreter, ba>>

RecursionNext ==
    \/ CallMinChange

RecursionSpec == RecursionInit /\ [][RecursionNext]_vars

\* The amounts up to amount that exactly k coins of the list make.
RECURSIVE CoinSums(_, _, _)
CoinSums(k, amount, coins) ==
    IF k = 0 THEN {0}
    ELSE {t \in 0..amount :
             \E c \in 1..Len(coins) : (t - coins[c]) \in CoinSums(k - 1, amount, coins)}

\* The least number of coins that make amount, -1 when there is none.
MinCoins(amount, coins) ==
    LET counts == {k \in 0..amount : amount \in CoinSums(k, amount, coins)}
    IN  IF counts = {} THEN -1
        ELSE CHOOSE k \in counts : \A m \in counts : k <= m

\* C16: for every amount >= 0 and list of coins min_change returns the least
\* number of coins, each usable any number of times, that sum to the amount,
\* and -1 when no combination of the coins makes the amount.
C16_MinChange ==
    Called("min_change") =>
        ret["min_change"] = int(MinCoins(args.amount, args.coins))

(***************************************************************************)
(* common_elements_in_arrays.py: common_elements, one action per pass of   *)
(* the while loop.                                                         *)
(***************************************************************************)
MaxValue == 4

\* The elements of the set S in ascending order.
RECURSIVE SortedSeq(_)
SortedSeq(S) ==
    IF S = {} THEN <<>>
    ELSE LET m == CHOOSE x \in S : \A y \in S : x <= y
         IN  <<m>> \o SortedSeq(S \ {m})

\* The sorted arrays without duplicates, and the two of the docstring.
SortedArrays == {SortedSeq(S) : S \in SUBSET (1..MaxValue)}

arr1 == <<1, 3, 4, 5, 6, 7, 9>>

arr2 == <<1, 2, 4, 5, 6, 10>>

CommonInit ==
    /\ InterpreterIdle
    /\ ba = <<>>
    /\ fn = ""
    /\ args \in [a : SortedArrays, b : SortedArrays] \cup {[a |-> arr1, b |-> arr2]}
    /\ locals = <<>>
    /\ ret = <<>>
    /\ nodes = <<>>

CommonEntry ==
    /\ fn = ""
    /\ ~Called("common_elements")
    /\ fn' = "common_elements"
    /\ locals' = [p1 |-> 0, p2 |-> 0, result |-> <<>>]
    /\ UNCHANGED <<args, ret, nodes, interpreter, ba>>

\* while p1 < len(a) and p2 < len(b)
CommonLooping ==
    /\ fn = "common_elements"
    /\ locals.p1 < Len(args.a)
    /\ locals.p2 < Len(args.b)

CommonEqual ==
    /\ CommonLooping
    /\ At(args.a, locals.p1) = At(args.b, locals.p2)
    /\ locals' = [p1 |-> locals.p1 + 1, p2 |-> locals.p2 + 2,
                  result |-> Append(locals.result, At(args.a, locals.p1))]
    /\ UNCHANGED <<fn, args, ret, nodes, interpreter, ba>>

CommonGreater ==
    /\ CommonLooping
    /\ At(args.a, locals.p1) > At(args.b, locals.p2)
    /\ locals' = [locals EXCEPT !.p2 = @ + 1]
    /\ UNCHANGED <<fn, args, ret, nodes, interpreter, ba>>

CommonLess ==
    /\ CommonLooping
    /\ At(args.a, locals.p1) < At(args.b, locals.p2)
    /\ locals' = [locals EXCEPT !.p1 = @ + 1]
    /\ UNCHANGED <<fn, args, ret, nodes, interpreter, ba>>

CommonReturn ==
    /\ fn = "common_elements"
    /\ ~CommonLooping
    /\ Return("common_elements", locals.result)
    /\ UNCHANGED <<args, nodes, interpreter, ba>>

CommonNext ==
    \/ CommonEntry
    \/ CommonEqual
    \/ CommonGreater
    \/ CommonLess
    \/ CommonReturn

CommonSpec == CommonInit /\ [][CommonNext]_vars

Elements(arr) == {arr[k] : k \in 1..Len(arr)}

\* C17: for every pair of sorted integer arrays without duplicates
\* common_elements returns exactly the elements present in both arrays, in
\* ascending order; [1,3,4,5,6,7,9] and [1,2,4,5,6,10] give [1,4,5,6].
C17_CommonElements ==
    Called("common_elements") =>
        ret["common_elements"] = SortedSeq(Elements(args.a) \cap Elements(args.b))

(***************************************************************************)
(* Pre-order, stated on the positions of a tree.  A position is the list   *)
(* of turns (0 left, 1 right) that leads from the root to a node.          *)
(***************************************************************************)
RECURSIVE Positions(_)
Positions(t) ==
    IF t = None THEN {}
    ELSE {<<>>} \cup {<<0>> \o p : p \in Positions(t.left)}
                \cup {<<1>> \o p : p \in Positions(t.right)}

RECURSIVE NodeAt(_, _)
NodeAt(t, p) ==
    IF p = <<>> THEN t
    ELSE NodeAt(IF Head(p) = 0 THEN t.left ELSE t.right, Tail(p))

IsPrefix(p, q) == Len(p) <= Len(q) /\ SubSeq(q, 1, Len(p)) = p

\* p comes before q: p is an ancestor of q, or p lies in the left and q in
\* the right subtree of their last common ancestor.
Before(p, q) ==
    \/ p # q /\ IsPrefix(p, q)
    \/ \E k \in 1..Len(p) :
          /\ k <= Len(q)
          /\ SubSeq(p, 1, k - 1) = SubSeq(q, 1, k - 1)
          /\ p[k] = 0
          /\ q[k] = 1

IsPreOrder(values, t) ==
    /\ Len(values) = Cardinality(Positions(t))
    /\ \A p \in Positions(t) :
          values[1 + Cardinality({q \in Positions(t) : Before(q, p)})] = NodeAt(t, p).value

\* C18: for every binary tree depth_first_iter and depth_first_recurse
\* return the same list, the node values in pre-order (node, left subtree,
\* right subtree) with each node exactly once, and [] for the empty tree.
C18_DepthFirstAgree ==
    /\ Called("depth_first_iter") => IsPreOrder(ret["depth_first_iter"], args.root_elem)
    /\ Called("depth_first_recurse") =>
           IsPreOrder(ret["depth_first_recurse"], args.root_elem)
    /\ Called("depth_first_iter") /\ Called("depth_first_recurse") =>
           ret["depth_first_iter"] = ret["depth_first_recurse"]
    /\ Called("depth_first_iter") /\ args.root_elem = None => ret["depth_first_iter"] = <<>>

\* Both traversals of root2 have returned its six values.
C18_Witness ==
    /\ args.root_elem = root2
    /\ Called("depth_first_iter")
    /\ Called("depth_first_recurse")
    /\ ret["depth_first_iter"] = <<5, 11, 4, 5, 3, 12>>

(***************************************************************************)
(* linked_lists.py: reverse_list.  nodes is the heap of Node objects, from *)
(* an object's identity to its fields; null is the reference None.         *)
(***************************************************************************)
MaxListNodes == 3

null == 0

Letters == <<"a", "b", "c", "d", "e", "f">>

ListNode(val, next) == [val |-> val, next |-> next]

\* The heaps of MaxListNodes objects, every next field set freely.
Heaps ==
    {[k \in 1..MaxListNodes |-> ListNode(Letters[k], f[k])] :
        f \in [1..MaxListNodes -> 0..MaxListNodes]}

\* The objects met by following next from head, at most fuel of them.
RECURSIVE Walk(_, _, _)
Walk(heap, head, fuel) ==
    IF head = null \/ fuel = 0 THEN <<>>
    ELSE <<head>> \o Walk(heap, heap[head].next, fuel - 1)

ListOf(heap, head) == Walk(heap, head, Len(heap) + 1)

\* The list of head is finite: following next reaches None.
Acyclic(heap, head) == Len(ListOf(heap, head)) <= Len(heap)

ReverseInit ==
    /\ InterpreterIdle
    /\ ba = <<>>
    /\ fn = ""
    /\ nodes \in Heaps
    /\ args \in [head : 0..MaxListNodes, at_call : {nodes}]
    /\ Acyclic(nodes, args.head)
    /\ locals = <<>>
    /\ ret = <<>>

ReverseEntry ==
    /\ fn = ""
    /\ ~Called("reverse_list")
    /\ fn' = "reverse_list"
    /\ locals' = [prev |-> null, current |-> args.head]
    /\ UNCHANGED <<args, ret, nodes, interpreter, ba>>

ReverseLoop_KeepsNext ==
    /\ fn = "reverse_list"
    /\ locals.current # null
    /\ locals' = [prev |-> locals.current, current |-> nodes[locals.current].next]
    /\ UNCHANGED <<fn, args, ret, nodes, interpreter, ba>>

ReverseLoop ==
    /\ fn = "reverse_list"
    /\ locals.current # null
    /\ LET next_item == nodes[locals.current].next
       IN  /\ nodes' = [nodes EXCEPT ![locals.current].next = locals.prev]
           /\ locals' = [prev |-> locals.current, current |-> next_item]
    /\ UNCHANGED <<fn, args, ret, interpreter, ba>>

ReverseReturn ==
    /\ fn = "reverse_list"
    /\ locals.current = null
    /\ Return("reverse_list", locals.prev)
    /\ UNCHANGED <<args, nodes, interpreter, ba>>

ReverseNext ==
    \/ ReverseEntry
    \/ ReverseLoop
    \/ ReverseReturn

ReverseSpec == ReverseInit /\ [][ReverseNext]_vars /\ WF_vars(ReverseNext)

RECURSIVE Reversed(_)
Reversed(seq) ==
    IF seq = <<>> THEN <<>> ELSE Append(Reversed(Tail(seq)), Head(seq))

InSeq(x, seq) == \E k \in 1..Len(seq) : seq[k] = x

\* The list at the call, as the objects in order.
ListAtCall == ListOf(args.at_call, args.head)

C19_Reversed ==
    Called("reverse_list") =>
        LET new_head == ret["reverse_list"]
        IN  /\ ListOf(nodes, new_head) = Reversed(ListAtCall)
            /\ ListAtCall # <<>> => new_head = ListAtCall[Len(ListAtCall)]
            /\ args.head # null => nodes[args.head].next = null
            /\ args.head = null => new_head = null
            /\ DOMAIN nodes = DOMAIN args.at_call
            /\ \A k \in DOMAIN nodes :
                  /\ nodes[k].val = args.at_call[k].val
                  /\ ~InSeq(k, ListAtCall) => nodes[k] = args.at_call[k]

\* C19: for every finite acyclic singly linked list reverse_list terminates,
\* reverses the next pointers in place without creating or losing a node and
\* returns the old last node as new head: following next from the returned
\* head visits the original nodes in reverse order, the old head ends with
\* next = None, and None is returned for the empty list.
C19_ReverseList ==
    /\ []C19_Reversed
    /\ (fn = "reverse_list") ~> Called("reverse_list")

\* A list of at least three nodes has been reversed.
C19_Witness ==
    /\ Called("reverse_list")
    /\ Len(ListAtCall) >= 3
    /\ ListOf(nodes, ret["reverse_list"]) = Reversed(ListAtCall)

(***************************************************************************)
(* bracket_check_with_stack.py: bracket_check, one action per character.   *)
(***************************************************************************)
MaxBrackets == 4

Brackets == {"(", ")", "[", "]", "{", "}"}

invalid == <<"[", "{", "}", ")", "[", "]">>

valid == <<"[", "[", "{", "}", "]", "(", ")", "]">>

BracketStrings ==
    UNION {[1..n -> Brackets] : n \in 0..MaxBrackets} \cup {invalid, valid}

get_rev_bracket(left_bracket) ==
    CASE left_bracket = "(" -> ")"
      [] left_bracket = "[" -> "]"
      [] left_bracket = "{" -> "}"

is_left_bracket(bracket) == bracket \in {"(", "[", "{"}

BracketInit ==
    /\ InterpreterIdle
    /\ ba = <<>>
    /\ fn = ""
    /\ args \in [string : BracketStrings]
    /\ locals = <<>>
    /\ ret = <<>>
    /\ nodes = <<>>

BracketEntry ==
    /\ fn = ""
    /\ ~Called("bracket_check")
    /\ fn' = "bracket_check"
    /\ locals' = [k |-> 0, stack |-> <<>>]
    /\ UNCHANGED <<args, ret, nodes, interpreter, ba>>

\* for bracket in string: the loop is at character k.
BracketAt ==
    /\ fn = "bracket_check"
    /\ locals.k < Len(args.string)

BracketLeft ==
    /\ BracketAt
    /\ is_left_bracket(At(args.string, locals.k))
    /\ locals' = [k |-> locals.k + 1,
                  stack |-> Append(locals.stack, At(args.string, locals.k))]
    /\ UNCHANGED <<fn, args, ret, nodes, interpreter, ba>>

\* stack.pop() on an empty list.
BracketEmptyStack_Pops ==
    /\ BracketAt
    /\ ~is_left_bracket(At(args.string, locals.k))
    /\ locals.stack = <<>>
    /\ Return("bracket_check", Raised("IndexError"))
    /\ UNCHANGED <<args, nodes, interpreter, ba>>

BracketEmptyStack ==
    /\ BracketAt
    /\ ~is_left_bracket(At(args.string, locals.k))
    /\ locals.stack = <<>>
    /\ Return("bracket_check", Returned(FALSE))
    /\ UNCHANGED <<args, nodes, interpreter, ba>>

BracketMismatch ==
    /\ BracketAt
    /\ ~is_left_bracket(At(args.string, locals.k))
    /\ locals.stack # <<>>
    /\ get_rev_bracket(locals.stack[Len(locals.stack)]) # At(args.string, locals.k)
    /\ Return("bracket_check", Returned(FALSE))
    /\ UNCHANGED <<args, nodes, interpreter, ba>>

BracketMatch ==
    /\ BracketAt
    /\ ~is_left_bracket(At(args.string, locals.k))
    /\ locals.stack # <<>>
    /\ get_rev_bracket(locals.stack[Len(locals.stack)]) = At(args.string, locals.k)
    /\ locals' = [k |-> locals.k + 1,
                  stack |-> SubSeq(locals.stack, 1, Len(locals.stack) - 1)]
    /\ UNCHANGED <<fn, args, ret, nodes, interpreter, ba>>

BracketReturn ==
    /\ fn = "bracket_check"
    /\ locals.k = Len(args.string)
    /\ Return("bracket_check", Returned(locals.stack = <<>>))
    /\ UNCHANGED <<args, nodes, interpreter, ba>>

BracketNext ==
    \/ BracketEntry
    \/ BracketLeft
    \/ BracketEmptyStack
    \/ BracketMismatch
    \/ BracketMatch
    \/ BracketReturn

BracketSpec == BracketInit /\ [][BracketNext]_vars

\* left and right are an opening bracket and the closing one of its kind.
Pair(left, right) == <<left, right>> \in {<<"(", ")">>, <<"[", "]">>, <<"{", "}">>}

\* Properly matched and nested: empty, or an opening bracket, a matched
\* string, the closing bracket of the same kind, and a matched string.
RECURSIVE Matched(_)
Matched(str) ==
    \/ str = <<>>
    \/ \E j \in 2..Len(str) :
          /\ Pair(str[1], str[j])
          /\ Matched(SubSeq(str, 2, j - 1))
          /\ Matched(SubSeq(str, j + 1, Len(str)))

\* C20: for every string over ( ) [ ] { } bracket_check returns True exactly
\* when the brackets are properly matched and nested and False otherwise,
\* and it does not raise on a closing bracket that meets an empty stack.
C20_BracketCheck ==
    Called("bracket_check") =>
        /\ ret["bracket_check"].kind = "value"
        /\ ret["bracket_check"].v = Matched(args.string)

\* A closing bracket has met an empty stack after a matched pair, and False
\* was returned.
C20_Witness ==
    /\ Called("bracket_check")
    /\ Len(args.string) >= 3
    /\ SubSeq(args.string, 1, 3) = <<"(", ")", "]">>
    /\ ret["bracket_check"] = Returned(FALSE)

(***************************************************************************)
(* memento_dp.py: BankAccountRedo.  ba is the account object; ret is the   *)
(* last call on it (method and returned value), args that call's           *)
(* arguments and locals.before the account as it was before the call.      *)
(***************************************************************************)
MaxChanges == 4

InitialBalances == {0, 100}

Amounts == {25, 50}

Memento(balance) == [kind |-> "Memento", balance |-> balance]

BankAccountRedo(balance) ==
    [balance |-> balance, changes |-> <<Memento(balance)>>, current |-> 0]

\* ret, args and locals after the call method(arguments) that returned value.
CallOnAccount(method, arguments, value) ==
    /\ ret' = [call |-> method, value |-> value]
    /\ args' = arguments
    /\ locals' = [before |-> ba]

MementoInit ==
    /\ InterpreterIdle
    /\ \E balance \in InitialBalances :
          /\ ba = BankAccountRedo(balance)
          /\ locals = [before |-> ba]
    /\ ret = [call |-> "__init__", value |-> None]
    /\ fn = ""
    /\ args = <<>>
    /\ nodes = <<>>

deposit(amount) ==
    /\ Len(ba.changes) < MaxChanges
    /\ LET m == Memento(ba.balance + amount)
       IN  /\ ba' = [balance |-> ba.balance + amount,
                     changes |-> Append(ba.changes, m),
                     current |-> ba.current + 1]
           /\ CallOnAccount("deposit", [amount |-> amount], m)
    /\ UNCHANGED <<fn, nodes, interpreter>>

restore(memento) ==
    /\ IF memento # None
       THEN /\ Len(ba.changes) < MaxChanges
            /\ ba' = [balance |-> memento.balance,
                      changes |-> Append(ba.changes, memento),
                      current |-> Len(ba.changes)]
       ELSE ba' = ba
    /\ CallOnAccount("restore", [memento |-> memento], None)
    /\ UNCHANGED <<fn, nodes, interpreter>>

\* undo without the test of current: Python's changes[-1] is the last memento.
undo_Unguarded ==
    /\ LET current == ba.current - 1
           m == IF current >= 0 THEN At(ba.changes, current)
                ELSE ba.changes[Len(ba.changes)]
       IN  /\ ba' = [ba EXCEPT !.current = current, !.balance = m.balance]
           /\ CallOnAccount("undo", <<>>, m)
    /\ UNCHANGED <<fn, nodes, interpreter>>

undo ==
    /\ IF ba.current > 0
       THEN LET m == At(ba.changes, ba.current - 1)
            IN  /\ ba' = [ba EXCEPT !.current = ba.current - 1, !.balance = m.balance]
                /\ CallOnAccount("undo", <<>>, m)
       ELSE /\ ba' = ba
            /\ CallOnAccount("undo", <<>>, None)
    /\ UNCHANGED <<fn, nodes, interpreter>>

redo ==
    /\ IF ba.current + 1 < Len(ba.changes)
       THEN LET m == At(ba.changes, ba.current + 1)
            IN  /\ ba' = [ba EXCEPT !.current = ba.current + 1, !.balance = m.balance]
                /\ CallOnAccount("redo", <<>>, m)
       ELSE /\ ba' = ba
            /\ CallOnAccount("redo", <<>>, None)
    /\ UNCHANGED <<fn, nodes, interpreter>>

\* The mementos a caller holds: those the account has handed out, and None.
HeldMementos == {ba.changes[k] : k \in 1..Len(ba.changes)} \cup {None}

CallDeposit == \E amount \in Amounts : deposit(amount)

CallRestore == \E memento \in HeldMementos : restore(memento)

MementoNext ==
    \/ CallDeposit
    \/ CallRestore
    \/ undo
    \/ redo

MementoSpec == MementoInit /\ [][MementoNext]_vars

C21_CurrentIsState ==
    /\ ba.current \in 0..(Len(ba.changes) - 1)
    /\ ba.balance = At(ba.changes, ba.current).balance

\* A redo that follows an undo which stepped back.
C21_RedoAfterUndo ==
    (ret.call = "undo" /\ ret.value # None /\ ret'.call = "redo") =>
        ba'.balance = locals.before.balance

\* C21: after any sequence of deposit, undo, redo and restore calls current
\* is a valid index of changes and balance is changes[current].balance, so
\* a redo that follows an undo returns the account to the balance it had
\* before that undo, also when deposits were made after earlier undos.
C21_RedoRestoresBalance ==
    /\ []C21_CurrentIsState
    /\ [][C21_RedoAfterUndo]_vars

\* C22: undo called when current is 0, redo called when current is the last
\* index of changes, and restore called with None each leave balance,
\* changes and current unchanged; undo and redo then return None.
C22_NothingToDo ==
    /\ (ret.call = "undo" /\ locals.before.current = 0) =>
           ba = locals.before /\ ret.value = None
    /\ (ret.call = "redo"
            /\ locals.before.current = Len(locals.before.changes) - 1) =>
           ba = locals.before /\ ret.value = None
    /\ (ret.call = "restore" /\ args.memento = None) => ba = locals.before

\* undo was called at current = 0 on an account that has two deposits to
\* redo, and left it as it was.
C22_Witness ==
    /\ ret.call = "undo"
    /\ locals.before.current = 0
    /\ Len(ba.changes) >= 3
    /\ ba = locals.before
    /\ ret.value = None

(***************************************************************************)
(* command_dp.py: BankAccountCommand on one BankAccount.  ba is the        *)
(* account, nodes the commands by identity (action, amount, success), ret  *)
(* the last call (method and command) and locals.calls the calls made.     *)
(***************************************************************************)
MaxCalls == 4

OVERDRAFT_LIMIT == -500

\* cmd and cmd2 of test_command.
CommandIds == {1, 2}

CommandAmounts == {0, 100, 550, 1000}

Actions == {"DEPOSIT", "WITHDRAW"}

BankAccount(balance) == [balance |-> balance]

BankAccountCommand(action, amount) ==
    [action |-> action, amount |-> amount, success |-> FALSE]

\* BankAccount.deposit and BankAccount.withdraw: the account after the call
\* and the returned value.
BankAccount_deposit(account, amount) ==
    [account |-> [account EXCEPT !.balance = @ + amount], returned |-> None]

BankAccount_withdraw(account, amount) ==
    IF account.balance - amount > OVERDRAFT_LIMIT
    THEN [account |-> [account EXCEPT !.balance = @ - amount], returned |-> TRUE]
    ELSE [account |-> account, returned |-> FALSE]

CommandInit ==
    /\ InterpreterIdle
    /\ ba = BankAccount(0)
    /\ nodes \in [CommandIds -> {BankAccountCommand(action, amount) :
                                    action \in Actions, amount \in CommandAmounts}]
    /\ ret = [call |-> "__init__", cmd |-> 0]
    /\ locals = [calls |-> 0]
    /\ fn = ""
    /\ args = <<>>

CallOnCommand(method, c) ==
    /\ locals.calls < MaxCalls
    /\ locals' = [calls |-> locals.calls + 1]
    /\ ret' = [call |-> method, cmd |-> c]

CommandInvoke(c) ==
    /\ CallOnCommand("invoke", c)
    /\ IF nodes[c].action = "DEPOSIT"
       THEN /\ ba' = BankAccount_deposit(ba, nodes[c].amount).account
            /\ nodes' = [nodes EXCEPT ![c].success = TRUE]
       ELSE LET done == BankAccount_withdraw(ba, nodes[c].amount)
            IN  /\ ba' = done.account
                /\ nodes' = [nodes EXCEPT ![c].success = done.returned]
    /\ UNCHANGED <<fn, args, interpreter>>

CommandUndo(c) ==
    /\ CallOnCommand("undo", c)
    /\ IF ~nodes[c].success
       THEN ba' = ba
       ELSE IF nodes[c].action = "DEPOSIT"
       THEN ba' = BankAccount_withdraw(ba, nodes[c].amount).account
       ELSE ba' = BankAccount_deposit(ba, nodes[c].amount).account
    /\ UNCHANGED <<fn, args, nodes, interpreter>>

CallInvoke == \E c \in CommandIds : CommandInvoke(c)

CallUndo == \E c \in CommandIds : CommandUndo(c)

CommandNext ==
    \/ CallInvoke
    \/ CallUndo

CommandSpec == CommandInit /\ [][CommandNext]_vars

\* What a successful invoke of the command adds to the balance.
Applied(cmd) == IF cmd.action = "DEPOSIT" THEN cmd.amount ELSE 0 - cmd.amount

C23_UndoStep(c) ==
    (ret'.call = "undo" /\ ret'.cmd = c) =>
        IF nodes[c].success
        THEN ba'.balance = ba.balance - Applied(nodes[c])
        ELSE ba'.balance = ba.balance

\* C23: for any sequence of invoke and undo calls of several
\* BankAccountCommands with non-negative amounts on one account, undo of a
\* command whose invoke succeeded changes the balance by exactly the
\* opposite of what its invoke applied, and undo of a command whose invoke
\* was refused leaves the balance unchanged.
C23_UndoIsOpposite == [][\A c \in CommandIds : C23_UndoStep(c)]_vars

====
